---------------------------- MODULE Spec2Model ----------------------------
(***************************************************************************)
(* Model of the core of rsb/sls (aws-serverless):                          *)
(*   - sls.Timeout.WithTimeConstraint  : the handler runner                *)
(*   - pstore.Client                   : Param / Put / Delete / Path       *)
(*   - pstore.Client.Params / Collect  : batch lookups                     *)
(*   - infra.Infra.ServiceEnvReport    : feature env reconciliation        *)
(*   - infra.Infra pstore commands     : import, delete, key qualification *)
(*   - apigw / cog adapters            : Handle around the runner          *)
(*   - dynamo.Client.Write             : conditional put                   *)
(* Each component has its own next-state relation and specification; the   *)
(* components share no state.                                              *)
(***************************************************************************)
EXTENDS Integers, Sequences, FiniteSets, TLC

(***************************************************************************)
(* Errors of github.com/rsb/failure: a kind and the chain of messages,     *)
(* outermost first.                                                        *)
(***************************************************************************)
NoErr == [kind |-> "nil", msg |-> <<>>]

Failure(kind, m) == [kind |-> kind, msg |-> <<m>>]

\* (variant: the wrapped error is turned into a System failure)
WrapAsSystem(e, m) == IF e = NoErr THEN NoErr ELSE [kind |-> "System", msg |-> <<m>> \o e.msg]

\* failure.Wrap keeps the kind of the wrapped error and prepends a message;
\* wrapping nil gives nil.
Wrap(e, m) == IF e = NoErr THEN NoErr ELSE [kind |-> e.kind, msg |-> <<m>> \o e.msg]

(***************************************************************************)
(*                 Timeout.WithTimeConstraint                              *)
(***************************************************************************)
NoOut == "<nil>"

\* The values a handler can return, fail with, or panic with.
HandlerOuts == {"resp"}
HandlerErrs == {Failure("Validation", "handler failed")}
PanicValues == {"boom", "bang"}

\* What the supplied ConcreteHandlerFn does when it is executed.
\*   ok       returns (out, nil)
\*   fail     returns (nil, err)
\*   panic    panics with the value r
\*   panicnil panic(nil): with go 1.16 recover() then returns nil
\*   hang     never finishes
Handlers ==
       { [kind |-> "ok", out |-> o, err |-> NoErr, r |-> "" ] : o \in HandlerOuts }
  \cup { [kind |-> "fail", out |-> NoOut, err |-> e, r |-> ""] : e \in HandlerErrs }
  \cup { [kind |-> "panic", out |-> NoOut, err |-> NoErr, r |-> r] : r \in PanicValues }
  \cup { [kind |-> "panicnil", out |-> NoOut, err |-> NoErr, r |-> ""],
         [kind |-> "hang", out |-> NoOut, err |-> NoErr, r |-> ""] }

PanicFailure == Failure("Panic", "invocation")

TimeoutFailure == Failure("Timeout", "invocation timeout")

\* Safety margin, in milliseconds, taken off the time left to the deadline.
DefaultFeatureTimeout == 100

\* Time is observed in steps of TickMs milliseconds, up to MaxTicks steps.
TickMs == 100
MaxTicks == 2

\* time.Until(deadline) at the moment of the call.
Untils == { k * TickMs : k \in 0..MaxTicks }

\* runTime := time.Until(deadline) - (DefaultFeatureTimeout * time.Millisecond)
RunTime(until) == until - DefaultFeatureTimeout

VARIABLES
  hasDeadline,  \* ctx.Deadline() reported a deadline
  runTime,      \* the computed budget, in milliseconds
  elapsed,      \* time passed since the timer was created
  fn,           \* the handler of the invocation
  cPc,          \* position of the caller inside WithTimeConstraint
  tPc,          \* position of the handler task (goroutine)
  out, err,     \* the named results, shared by the caller and the task
  ret,          \* what the caller received from WithTimeConstraint
  taken,        \* the select branches the caller left through
  returns,      \* how many times the call returned
  logs          \* entries written to the invocation logger

tvars == <<hasDeadline, runTime, elapsed, fn, cPc, tPc, out, err, ret, taken, returns, logs>>

NoRet == [out |-> NoOut, err |-> NoErr]

TInit ==
  /\ hasDeadline = FALSE
  /\ runTime = 0
  /\ elapsed = 0
  /\ fn = CHOOSE h \in Handlers : h.kind = "hang"
  /\ cPc = "idle"
  /\ tPc = "none"
  /\ out = NoOut
  /\ err = NoErr
  /\ ret = NoRet
  /\ taken = {}
  /\ returns = 0
  /\ logs = <<>>

\* Entry: without a deadline the handler runs in the calling flow (after a
\* warning); with one the task is started and the caller goes to the select.
Call(d, until, h) ==
  /\ cPc = "idle"
  /\ hasDeadline' = d
  /\ runTime' = IF d THEN RunTime(until) ELSE 0
  /\ elapsed' = 0
  /\ fn' = h
  /\ IF d
       THEN /\ cPc' = "select"
            /\ tPc' = "run"
            /\ logs' = logs
       ELSE /\ cPc' = "sync"
            /\ tPc' = "none"
            /\ logs' = Append(logs, [level |-> "warn", recover |-> "", panic |-> FALSE])
  /\ UNCHANGED <<out, err, ret, taken, returns>>

\* out, err = fn(); return out, err  -- no recover on this path.
SyncRun ==
  /\ cPc = "sync"
  /\ fn.kind # "hang"
  /\ IF fn.kind \in {"ok", "fail"}
       THEN /\ out' = fn.out
            /\ err' = fn.err
            /\ ret' = [out |-> fn.out, err |-> fn.err]
            /\ cPc' = "returned"
            /\ returns' = returns + 1
       ELSE /\ cPc' = "panicked"
            /\ UNCHANGED <<out, err, ret, returns>>
  /\ UNCHANGED <<hasDeadline, runTime, elapsed, fn, tPc, taken, logs>>

\* (variant: the handler's error is not stored in the named result)
HandlerReturnDropsErr ==
  /\ tPc = "run"
  /\ fn.kind \in {"ok", "fail"}
  /\ out' = fn.out
  /\ err' = NoErr
  /\ tPc' = "send"
  /\ UNCHANGED <<hasDeadline, runTime, elapsed, fn, cPc, ret, taken, returns, logs>>

\* Task: out, err = fn() when fn returns.
HandlerReturn ==
  /\ tPc = "run"
  /\ fn.kind \in {"ok", "fail"}
  /\ out' = fn.out
  /\ err' = fn.err
  /\ tPc' = "send"
  /\ UNCHANGED <<hasDeadline, runTime, elapsed, fn, cPc, ret, taken, returns, logs>>

\* (variant: the completion signal is sent before the failure is recorded)
AfterRecoverSendFirst(h) == IF h.kind = "panic" THEN "sendPanic" ELSE "done"

\* The task's position once a panicking handler reaches the deferred
\* function: r != nil enters the if, r == nil ends the task.
AfterRecover(h) == IF h.kind = "panic" THEN "recovered" ELSE "done"

\* Task: fn panics, the deferred function calls recover().
HandlerPanic ==
  /\ tPc = "run"
  /\ fn.kind \in {"panic", "panicnil"}
  /\ tPc' = AfterRecover(fn)
  /\ UNCHANGED <<hasDeadline, runTime, elapsed, fn, cPc, out, err, ret, taken, returns, logs>>

\* Task: err = failure.Panic("invocation")
RecoverSetErr ==
  /\ tPc = "recovered"
  /\ err' = PanicFailure
  /\ tPc' = "log"
  /\ UNCHANGED <<hasDeadline, runTime, elapsed, fn, cPc, out, ret, taken, returns, logs>>

\* Task: logger.With("recover", r, "stack", ..., "panic", true).Error(err)
RecoverLog ==
  /\ tPc = "log"
  /\ logs' = Append(logs, [level |-> "error", recover |-> fn.r, panic |-> TRUE])
  /\ tPc' = "sendPanic"
  /\ UNCHANGED <<hasDeadline, runTime, elapsed, fn, cPc, out, err, ret, taken, returns>>

\* completed is unbuffered: a send completes only together with a receive.
Sending == tPc \in {"send", "sendPanic"}

\* case <-completed: the rendezvous of the task's send and the caller's receive.
SelectCompleted ==
  /\ cPc = "select"
  /\ Sending
  /\ tPc' = "done"
  /\ cPc' = "return"
  /\ taken' = taken \cup {"completed"}
  /\ UNCHANGED <<hasDeadline, runTime, elapsed, fn, out, err, ret, returns, logs>>

\* Time passes while the caller waits in the select.
Tick ==
  /\ cPc = "select"
  /\ elapsed < runTime
  /\ elapsed' = elapsed + TickMs
  /\ UNCHANGED <<hasDeadline, runTime, fn, cPc, tPc, out, err, ret, taken, returns, logs>>

\* time.After(d) delivers once d has passed, at once when d <= 0.
TimerReady == elapsed >= runTime

\* (variant: the timer is only looked at once the handler task has ended)
SelectTimerAfterTask ==
  /\ cPc = "select"
  /\ TimerReady
  /\ tPc \in {"send", "sendPanic", "done"}
  /\ cPc' = "timeout"
  /\ taken' = taken \cup {"timer"}
  /\ UNCHANGED <<hasDeadline, runTime, elapsed, fn, tPc, out, err, ret, returns, logs>>

\* case <-time.After(runTime)
SelectTimer ==
  /\ cPc = "select"
  /\ TimerReady
  /\ cPc' = "timeout"
  /\ taken' = taken \cup {"timer"}
  /\ UNCHANGED <<hasDeadline, runTime, elapsed, fn, tPc, out, err, ret, returns, logs>>

\* err = failure.Timeout("invocation timeout")
SetTimeout ==
  /\ cPc = "timeout"
  /\ err' = TimeoutFailure
  /\ cPc' = "return"
  /\ UNCHANGED <<hasDeadline, runTime, elapsed, fn, tPc, out, ret, taken, returns, logs>>

\* return out, err : the named results are read when the call returns.
Return ==
  /\ cPc = "return"
  /\ ret' = [out |-> out, err |-> err]
  /\ cPc' = "returned"
  /\ returns' = returns + 1
  /\ UNCHANGED <<hasDeadline, runTime, elapsed, fn, tPc, out, err, taken, logs>>

(***************************************************************************)
(*                          pstore.Client                                  *)
(***************************************************************************)
\* Keys are strings, kept as sequences of path elements so that the leading
\* separator can be inspected.  The empty sequence is the empty string.
Keys == { <<>>, <<"/", "app", "/", "A">>, <<"app", "/", "B">> }

\* Parameter names the backend can hold.
StoreKeys == Keys \ {<<>>}

\* Parameter values; a parameter can hold the empty string.
Values == {"", "x", "y"}

\* The variadic overwrite argument: not given, false, true.
Overwrites == { <<>>, <<FALSE>>, <<TRUE>> }

\* Backend requests that fail with a transport error during one operation.
FaultSets == { {}, {"GetParameter"}, {"PutParameter"}, {"DeleteParameter"} }

\* failure.ToSystem(err, msg)
ToSystem(apiErr, m) == [kind |-> "System", msg |-> <<m, apiErr>>]

\* failure.ToNotFound(err, msg)
ToNotFound(apiErr, m) == [kind |-> "NotFound", msg |-> <<m, apiErr>>]

IsNotFound(e) == e.kind = "NotFound"

\* (variant: every backend error becomes a System failure)
handleAPIErrorAllSystem(apiErr, m) ==
  IF apiErr = "none" THEN NoErr ELSE ToSystem(apiErr, m)

\* handleAPIError: NotFound for types.ParameterNotFound, System otherwise.
handleAPIError(apiErr, m) ==
  IF apiErr = "none" THEN NoErr
  ELSE IF apiErr = "ParameterNotFound" THEN ToNotFound(apiErr, m)
  ELSE ToSystem(apiErr, m)

\* --- the backend (AdapterAPI), with the semantics of the SSM service ---
ApiCall(api, name) == [api |-> api, name |-> name]

GetParameter(st, name, faults) ==
  IF "GetParameter" \in faults THEN [err |-> "RequestError", value |-> ""]
  ELSE IF name \notin DOMAIN st THEN [err |-> "ParameterNotFound", value |-> ""]
  ELSE [err |-> "none", value |-> st[name]]

\* Overwrite=false on an existing name is refused with ParameterAlreadyExists.
PutParameter(st, name, value, isOverwrite, faults) ==
  IF "PutParameter" \in faults THEN [err |-> "RequestError", store |-> st]
  ELSE IF name \in DOMAIN st /\ ~isOverwrite
    THEN [err |-> "ParameterAlreadyExists", store |-> st]
  ELSE [err |-> "none",
        store |-> [k \in (DOMAIN st) \cup {name} |-> IF k = name THEN value ELSE st[k]]]

DeleteParameter(st, name, faults) ==
  IF "DeleteParameter" \in faults THEN [err |-> "RequestError", store |-> st]
  ELSE IF name \notin DOMAIN st THEN [err |-> "ParameterNotFound", store |-> st]
  ELSE [err |-> "none", store |-> [k \in (DOMAIN st) \ {name} |-> st[k]]]

\* --- the client ---
\* c.EnsurePathPrefix
EnsurePathPrefix(path) ==
  IF Len(path) > 0 /\ path[1] = "/" THEN path ELSE <<"/">> \o path

\* (variant: an empty value is taken for a missing parameter)
ParamEmptyIsMissing(st, key, faults) ==
  IF key = <<>>
    THEN [value |-> "", err |-> Failure("System", "key is empty"), calls |-> <<>>]
    ELSE LET r == GetParameter(st, key, faults)
         IN  [value |-> r.value,
              err   |-> IF r.err = "none" /\ r.value = ""
                          THEN ToNotFound("ParameterNotFound", "c.api.GetParameter failed")
                          ELSE handleAPIError(r.err, "c.api.GetParameter failed"),
              calls |-> <<ApiCall("GetParameter", key)>>]

\* c.Param: the value, the error and the backend calls made.
Param(st, key, faults) ==
  IF key = <<>>
    THEN [value |-> "", err |-> Failure("System", "key is empty"), calls |-> <<>>]
    ELSE LET r == GetParameter(st, key, faults)
         IN  [value |-> r.value,
              err   |-> handleAPIError(r.err, "c.api.GetParameter failed"),
              calls |-> <<ApiCall("GetParameter", key)>>]

\* (variant: an existing parameter is recognised by its non-empty value)
SameValueNonEmpty(perr, old, value) == old # "" /\ old = value

\* Put: "if we found something and the values are the same"
SameValue(perr, old, value) == ~IsNotFound(perr) /\ old = value

\* (variant: the flag is read from the second variadic argument)
IsOverwriteSecond(ow) == Len(ow) > 1 /\ ow[2]

\* Put: len(overwrite) > 0 && overwrite[0] == true
IsOverwrite(ow) == Len(ow) > 0 /\ ow[1]

\* Put: isOverwrite == false && old != ""
RefusesOverwrite(ow, old) == ~IsOverwrite(ow) /\ old # ""

VARIABLES
  store,   \* the parameters held by the backend
  pPc,     \* "idle", or "put" between Put's read and its PutParameter
  pend,    \* the Put in progress
  last     \* the last completed client operation and what it returned

pvars == <<store, pPc, pend, last>>

EmptyStore == [k \in {} |-> ""]

NoOp == [op |-> "none", key |-> <<>>, value |-> "", ow |-> <<>>, faults |-> {},
         pre |-> EmptyStore, result |-> "", err |-> NoErr, calls |-> <<>>]

PInit ==
  /\ store = EmptyStore
  /\ pPc = "idle"
  /\ pend = NoOp
  /\ last = NoOp

Done(op, key, value, ow, faults, pre, result, e, calls) ==
  [op |-> op, key |-> key, value |-> value, ow |-> ow, faults |-> faults,
   pre |-> pre, result |-> result, err |-> e, calls |-> calls]

\* c.Param(ctx, key)
ParamOp(key, faults) ==
  /\ pPc = "idle"
  /\ LET r == Param(store, key, faults)
     IN  last' = Done("Param", key, "", <<>>, faults, store, r.value, r.err, r.calls)
  /\ UNCHANGED <<store, pPc, pend>>

\* c.Delete(ctx, key)
DeleteOp(key, faults) ==
  /\ pPc = "idle"
  /\ LET r == Param(store, key, faults)
         d == DeleteParameter(store, key, faults)
         calls == r.calls \o <<ApiCall("DeleteParameter", key)>>
     IN  IF r.err # NoErr
           THEN /\ last' = Done("Delete", key, "", <<>>, faults, store, r.value,
                                Wrap(r.err, "c.Param failed"), r.calls)
                /\ store' = store
           ELSE IF d.err # "none"
             THEN /\ last' = Done("Delete", key, "", <<>>, faults, store, r.value,
                                  ToSystem(d.err, "c.api.DeleteParameter failed"), calls)
                  /\ store' = d.store
             ELSE /\ last' = Done("Delete", key, "", <<>>, faults, store, r.value,
                                  NoErr, calls)
                  /\ store' = d.store
  /\ UNCHANGED <<pPc, pend>>

\* c.Put(ctx, key, value, overwrite...) up to the PutParameter request:
\* the read through c.Param and the three early returns.
PutRead(key, value, ow, faults) ==
  /\ pPc = "idle"
  /\ LET r == Param(store, key, faults)
     IN  IF r.err # NoErr /\ ~IsNotFound(r.err)
           THEN /\ last' = Done("Put", key, value, ow, faults, store, r.value,
                                Wrap(r.err, "c.Param failed"), r.calls)
                /\ UNCHANGED <<pPc, pend>>
         ELSE IF SameValue(r.err, r.value, value)
           THEN /\ last' = Done("Put", key, value, ow, faults, store, r.value,
                                NoErr, r.calls)
                /\ UNCHANGED <<pPc, pend>>
         ELSE IF RefusesOverwrite(ow, r.value)
           THEN /\ last' = Done("Put", key, value, ow, faults, store, r.value,
                                Failure("System", "param exists but overwrite is false"),
                                r.calls)
                /\ UNCHANGED <<pPc, pend>>
         ELSE /\ pend' = Done("Put", key, value, ow, faults, store, r.value,
                              NoErr, r.calls)
              /\ pPc' = "put"
              /\ last' = last
  /\ store' = store

\* (variant: the request always asks the backend to overwrite)
PutWriteAlwaysOverwrite ==
  /\ pPc = "put"
  /\ LET w == PutParameter(store, pend.key, pend.value, TRUE, pend.faults)
         calls == pend.calls \o <<ApiCall("PutParameter", pend.key)>>
     IN  /\ store' = w.store
         /\ last' = [pend EXCEPT !.calls = calls,
                                 !.err = IF w.err # "none"
                                           THEN ToSystem(w.err, "c.api.PutParameterWithContext failed")
                                           ELSE NoErr]
  /\ pPc' = "idle"
  /\ pend' = NoOp

\* c.Put from the PutParameter request to the return.
PutWrite ==
  /\ pPc = "put"
  /\ LET w == PutParameter(store, pend.key, pend.value, IsOverwrite(pend.ow), pend.faults)
         calls == pend.calls \o <<ApiCall("PutParameter", pend.key)>>
     IN  /\ store' = w.store
         /\ last' = [pend EXCEPT !.calls = calls,
                                 !.err = IF w.err # "none"
                                           THEN ToSystem(w.err, "c.api.PutParameterWithContext failed")
                                           ELSE NoErr]
  /\ pPc' = "idle"
  /\ pend' = NoOp

(***************************************************************************)
(*              pstore.Client.Path / ResolvePathPages                      *)
(***************************************************************************)
MaxPages == 2
MaxPageErrs == 2

\* nil *string: of a Name, of a Value
NilName == <<"<nil>">>
NilStr == "<nil>"

PName(k) == IF k = "A" THEN <<"/", "app", "/", "A">> ELSE <<"/", "app", "/", "B">>

\* A parameter of a page: Name and Value are *string and may be nil.
Prm(n, v) == [name |-> n, value |-> v]

\* The pages a backend can answer with.
PageChoices ==
  { <<>>,
    << Prm(PName("A"), "x") >>,
    << Prm(PName("A"), "y"), Prm(PName("B"), "") >>,
    << Prm(NilName, "x"), Prm(PName("B"), NilStr), Prm(PName("B"), "y") >> }

RECURSIVE SeqsUpTo(_, _)
SeqsUpTo(S, n) ==
  IF n = 0 THEN { <<>> }
  ELSE LET shorter == SeqsUpTo(S, n - 1)
       IN  shorter \cup { Append(q, x) : q \in shorter, x \in S }

PageLists == SeqsUpTo(PageChoices, MaxPages)

EmptyMap == [n \in {} |-> ""]

MapPut(m, n, v) == [k \in (DOMAIN m) \cup {n} |-> IF k = n THEN v ELSE m[k]]

\* for _, p := range out.Parameters { skip nil Name/Value; result[*p.Name] = *p.Value }
RECURSIVE MergePage(_, _)
MergePage(res, page) ==
  IF page = <<>> THEN res
  ELSE LET p == Head(page)
       IN  IF p.name = NilName \/ p.value = NilStr
             THEN MergePage(res, Tail(page))
             ELSE MergePage(MapPut(res, p.name, p.value), Tail(page))

\* failure.Multi.ErrorOrNil
ErrorOrNil(errs) ==
  IF errs = <<>> THEN NoErr ELSE [kind |-> "Multiple", msg |-> errs]

IsMultiple(e) == e.kind = "Multiple"

VARIABLES
  gPc,       \* "idle", "loop" (inside ResolvePathPages) or "done"
  gPath,     \* the Path field of the GetParametersByPathInput
  pages,     \* the pages behind the pager
  advOnErr,  \* the pager moves on when a fetch fails (MockPathPager) or not
  outage,    \* the backend fails every fetch, or only now and then
  pageNum,   \* pages the pager has moved past
  polls,     \* parity of the number of NextPage calls made
  fetched,   \* indices of the pages fetched without error
  failed,    \* the errors appended to the failure.Multi
  gResult,   \* the map being accumulated
  gRet       \* what Path returned

gvars == <<gPc, gPath, pages, advOnErr, outage, pageNum, polls, fetched, failed,
           gResult, gRet>>

NoPathRet == [result |-> EmptyMap, isNil |-> TRUE, err |-> NoErr]

GInit ==
  /\ gPc = "idle"
  /\ gPath = <<>>
  /\ pages = <<>>
  /\ advOnErr = FALSE
  /\ outage = FALSE
  /\ pageNum = 0
  /\ polls = 0
  /\ fetched = {}
  /\ failed = <<>>
  /\ gResult = EmptyMap
  /\ gRet = NoPathRet

\* c.Path up to the call of c.ResolvePathPages.
PathCall(path, ctorNil, pgs, adv, down) ==
  /\ gPc = "idle"
  /\ pages' = pgs
  /\ advOnErr' = adv
  /\ outage' = down
  /\ IF path = <<>>
       THEN /\ gRet' = [result |-> EmptyMap, isNil |-> FALSE,
                        err |-> Failure("System", "path is empty")]
            /\ gPath' = path
            /\ gPc' = "done"
       ELSE IF ctorNil
         THEN /\ gRet' = [result |-> EmptyMap, isNil |-> TRUE,
                          err |-> Failure("System", "closure is not initialized")]
              /\ gPath' = EnsurePathPrefix(path)
              /\ gPc' = "done"
         ELSE /\ gRet' = gRet
              /\ gPath' = EnsurePathPrefix(path)
              /\ gPc' = "loop"
  /\ UNCHANGED <<pageNum, polls, fetched, failed, gResult>>

\* pager.HasMorePages()
HasMorePages == pageNum < Len(pages)

\* pager.NextPage succeeds: the page's parameters are merged.
NextPageOk ==
  /\ gPc = "loop"
  /\ HasMorePages
  /\ ~outage
  /\ gResult' = MergePage(gResult, pages[pageNum + 1])
  /\ fetched' = fetched \cup {pageNum + 1}
  /\ pageNum' = pageNum + 1
  /\ polls' = 1 - polls
  /\ UNCHANGED <<gPc, gPath, pages, advOnErr, outage, failed, gRet>>

\* (variant: the first failing page ends the loop with that page's error)
NextPageFailFast ==
  /\ gPc = "loop"
  /\ HasMorePages
  /\ Len(failed) < MaxPageErrs
  /\ failed' = Append(failed, "page error")
  /\ gRet' = [result |-> gResult, isNil |-> FALSE,
              err |-> Wrap(ToSystem("page error", "NextPage failed"),
                           "c.ResolvePathPages failed")]
  /\ gPc' = "done"
  /\ polls' = 1 - polls
  /\ UNCHANGED <<gPath, pages, advOnErr, outage, pageNum, fetched, gResult>>

\* pager.NextPage fails: failed = failure.Append(failed, err); continue.
\* failed keeps the first MaxPageErrs errors of the Multi; failures that
\* come now and then are counted up to that number.
NextPageFail ==
  /\ gPc = "loop"
  /\ HasMorePages
  /\ outage \/ Len(failed) < MaxPageErrs
  /\ failed' = IF Len(failed) < MaxPageErrs THEN Append(failed, "page error") ELSE failed
  /\ pageNum' = IF advOnErr THEN pageNum + 1 ELSE pageNum
  /\ polls' = 1 - polls
  /\ UNCHANGED <<gPc, gPath, pages, advOnErr, outage, fetched, gResult, gRet>>

\* return result, failed.ErrorOrNil() and, in Path, the wrap of the error.
PathReturn ==
  /\ gPc = "loop"
  /\ ~HasMorePages
  /\ gRet' = [result |-> gResult, isNil |-> FALSE,
              err |-> Wrap(ErrorOrNil(failed), "c.ResolvePathPages failed")]
  /\ gPc' = "done"
  /\ UNCHANGED <<gPath, pages, advOnErr, outage, pageNum, polls, fetched, failed, gResult>>

(***************************************************************************)
(*                    infra.Infra.ServiceEnvReport                         *)
(***************************************************************************)
MaxFeatures == 2

FeatureTitles == 1..MaxFeatures
EnvNames == {"FOO", "BAR"}
EnvValues == {"bar", "baz"}

\* The env map a feature's Configurable reports.
EnvMaps == UNION { [ns -> EnvValues] : ns \in SUBSET EnvNames }

Services == UNION { [fs -> EnvMaps] : fs \in SUBSET FeatureTitles }

\* key := title, or feature.NameWithTrigger() with c.WithTrigger
FeatureKey(title, withTrigger) ==
  IF withTrigger THEN <<"apigw", title>> ELSE <<title>>

\* FeatureEnvReport: name -> "" when only the names are asked for.
FeatureEnvReport(envs, isNamesOnly) ==
  IF isNamesOnly THEN [n \in DOMAIN envs |-> ""] ELSE envs

\* (variant: the latest value replaces the recorded one)
MergeEnvLastWins(res, env, value) == MapPut(res, env, value)

\* result[env] is set only when env has not been recorded yet.
MergeEnv(res, env, value) ==
  IF env \in DOMAIN res THEN res ELSE MapPut(res, env, value)

\* invalid[key] = map[string]string{env: value} when the values differ.
RecordConflict(inv, res, key, env, value) ==
  IF env \in DOMAIN res /\ res[env] # value
    THEN [k \in (DOMAIN inv) \cup {key} |->
            IF k = key THEN [n \in {env} |-> value] ELSE inv[k]]
    ELSE inv

VARIABLES
  ePc,         \* "idle", "features", "envs" or "done"
  svc,         \* service.Features: title -> reported env map
  withTrigger, \* c.WithTrigger
  namesOnly,   \* isNamesOnly[0]
  doneF,       \* features already ranged over
  curF,        \* the feature of the current iteration
  curEnvs,     \* its FeatureEnvReport
  doneE,       \* names of curEnvs already ranged over
  merged,      \* result
  invalid,     \* invalid
  eRet         \* what ServiceEnvReport returned

evars == <<ePc, svc, withTrigger, namesOnly, doneF, curF, curEnvs, doneE,
           merged, invalid, eRet>>

EmptyInvalid == [k \in {} |-> EmptyMap]

NoEnvRet == [result |-> EmptyMap, invalid |-> EmptyInvalid, isNil |-> TRUE,
             err |-> NoErr]

EInit ==
  /\ ePc = "idle"
  /\ svc = [f \in {} |-> EmptyMap]
  /\ withTrigger = FALSE
  /\ namesOnly = FALSE
  /\ doneF = {}
  /\ curF = 0
  /\ curEnvs = EmptyMap
  /\ doneE = {}
  /\ merged = EmptyMap
  /\ invalid = EmptyInvalid
  /\ eRet = NoEnvRet

EnvCall(service, wt, no) ==
  /\ ePc = "idle"
  /\ svc' = service
  /\ withTrigger' = wt
  /\ namesOnly' = no
  /\ ePc' = "features"
  /\ UNCHANGED <<doneF, curF, curEnvs, doneE, merged, invalid, eRet>>

\* for title, feature := range service.Features: any order; FeatureEnvReport
\* succeeds.
NextFeature(f) ==
  /\ ePc = "features"
  /\ f \in (DOMAIN svc) \ doneF
  /\ curF' = f
  /\ curEnvs' = FeatureEnvReport(svc[f], namesOnly)
  /\ doneE' = {}
  /\ ePc' = "envs"
  /\ UNCHANGED <<svc, withTrigger, namesOnly, doneF, merged, invalid, eRet>>

\* FeatureEnvReport fails: return nil, nil, failure.Wrap(err, ...)
FeatureFails(f) ==
  /\ ePc = "features"
  /\ f \in (DOMAIN svc) \ doneF
  /\ eRet' = [result |-> EmptyMap, invalid |-> EmptyInvalid, isNil |-> TRUE,
              err |-> Wrap(Failure("System", "config.EnvToMap failed"),
                           "i.FeatureEnvReport")]
  /\ ePc' = "done"
  /\ UNCHANGED <<svc, withTrigger, namesOnly, doneF, curF, curEnvs, doneE,
                 merged, invalid>>

\* for env, value := range envs: one iteration, any order.
EnvEntry(env) ==
  /\ ePc = "envs"
  /\ env \in (DOMAIN curEnvs) \ doneE
  /\ merged' = MergeEnv(merged, env, curEnvs[env])
  /\ invalid' = RecordConflict(invalid, merged, FeatureKey(curF, withTrigger),
                               env, curEnvs[env])
  /\ doneE' = doneE \cup {env}
  /\ UNCHANGED <<ePc, svc, withTrigger, namesOnly, doneF, curF, curEnvs, eRet>>

\* the inner range is exhausted
FeatureDone ==
  /\ ePc = "envs"
  /\ doneE = DOMAIN curEnvs
  /\ doneF' = doneF \cup {curF}
  /\ ePc' = "features"
  /\ UNCHANGED <<svc, withTrigger, namesOnly, curF, curEnvs, doneE, merged,
                 invalid, eRet>>

\* return result, invalid, nil
EnvReturn ==
  /\ ePc = "features"
  /\ doneF = DOMAIN svc
  /\ eRet' = [result |-> merged, invalid |-> invalid, isNil |-> FALSE, err |-> NoErr]
  /\ ePc' = "done"
  /\ UNCHANGED <<svc, withTrigger, namesOnly, doneF, curF, curEnvs, doneE,
                 merged, invalid>>

(***************************************************************************)
(*             infra.Infra.PutParam / RunPStoreImport                      *)
(***************************************************************************)
\* service.Name.AppTitle(): the title, or the empty string
AppTitles == { <<>>, <<"app">> }

\* Keys of the imported parameters: relative, or already app-qualified.
ImportKeys == { <<"A">>, <<"app", "/", "B">> }

\* The params map read from the file or from the service.
ImportParams == UNION { [ks -> Values] : ks \in SUBSET ImportKeys }

\* What the backend holds when the command starts.
ImportStores == UNION { [ps -> Values] : ps \in SUBSET { PName("A"), PName("B") } }

\* Backend requests that fail during one PutParam.
ImportFaults == { {}, {"GetParameter"}, {"PutParameter"} }

\* strings.HasPrefix, on path elements
HasPrefix(s, p) == Len(p) <= Len(s) /\ SubSeq(s, 1, Len(p)) = p

\* if !strings.HasPrefix(key, appTitle) { key = appTitle + "/" + key }
Qualify(appTitle, key) ==
  IF HasPrefix(key, appTitle) THEN key ELSE appTitle \o <<"/">> \o key

\* c.Put as one call: the new store, the returned value and error.
ClientPut(st, key, value, ow, faults) ==
  LET r == Param(st, key, faults)
  IN  IF r.err # NoErr /\ ~IsNotFound(r.err)
        THEN [store |-> st, result |-> r.value, err |-> Wrap(r.err, "c.Param failed")]
      ELSE IF SameValue(r.err, r.value, value)
        THEN [store |-> st, result |-> r.value, err |-> NoErr]
      ELSE IF RefusesOverwrite(ow, r.value)
        THEN [store |-> st, result |-> r.value,
              err |-> Failure("System", "param exists but overwrite is false")]
      ELSE LET w == PutParameter(st, key, value, IsOverwrite(ow), faults)
           IN  [store |-> w.store, result |-> r.value,
                err |-> IF w.err # "none"
                          THEN ToSystem(w.err, "c.api.PutParameterWithContext failed")
                          ELSE NoErr]

\* i.PutParam: the new store, the map {path: old} (nil on error), the error.
InfraPutParam(st, appTitle, key, value, overwrite, faults) ==
  IF appTitle = <<>>
    THEN [store |-> st, old |-> EmptyMap, err |-> Failure("System", "appTitle is empty")]
    ELSE LET path == EnsurePathPrefix(Qualify(appTitle, key))
             p == ClientPut(st, path, value, <<overwrite>>, faults)
         IN  IF p.err # NoErr
               THEN [store |-> p.store, old |-> EmptyMap,
                     err |-> Wrap(p.err, "i.PStoreAPI.Param failed")]
               ELSE [store |-> p.store, old |-> [k \in {path} |-> p.result],
                     err |-> NoErr]

\* if err != nil && failure.IsNotFound(err) { errs = append(errs, err); continue }
CollectsError(e) == e # NoErr /\ IsNotFound(e)

\* for bk, bv := range old { backup[bk] = bv }
MergeBackup(backup, old) ==
  [k \in (DOMAIN backup) \cup (DOMAIN old) |->
     IF k \in DOMAIN old THEN old[k] ELSE backup[k]]

VARIABLES
  iPc,        \* "idle", "loop" or "done"
  iStore,     \* the parameters held by the backend
  iTitle,     \* appTitle
  iParams,    \* params
  iOverwrite, \* config.Overwrite
  iDone,      \* keys of params already ranged over
  iErrs,      \* errs
  iBackup,    \* backup
  iFailed,    \* the PutParam calls that returned an error: key and error
  iRet        \* the command's outcome: stderr, stdout and returned error

ivars == <<iPc, iStore, iTitle, iParams, iOverwrite, iDone, iErrs, iBackup,
           iFailed, iRet>>

NoImportRet == [stderr |-> <<>>, stdout |-> EmptyMap, printed |-> FALSE, err |-> NoErr]

IInit ==
  /\ iPc = "idle"
  /\ iStore = EmptyStore
  /\ iTitle = <<>>
  /\ iParams = EmptyMap
  /\ iOverwrite = FALSE
  /\ iDone = {}
  /\ iErrs = <<>>
  /\ iBackup = EmptyMap
  /\ iFailed = {}
  /\ iRet = NoImportRet

\* RunPStoreImport up to the loop: validation, configuration, loading the
\* service and reading the params; any of them failing returns the error.
ImportCall(st, title, params, ow, setupOk) ==
  /\ iPc = "idle"
  /\ iStore' = st
  /\ iTitle' = title
  /\ iParams' = params
  /\ iOverwrite' = ow
  /\ IF setupOk
       THEN /\ iPc' = "loop"
            /\ iRet' = iRet
       ELSE /\ iPc' = "done"
            /\ iRet' = [iRet EXCEPT !.err = Wrap(Failure("System", "setup"),
                                                 "i.LoadService failed")]
  /\ UNCHANGED <<iDone, iErrs, iBackup, iFailed>>

\* one iteration of `for k, v := range params`, in any order
ImportPut(k, faults) ==
  /\ iPc = "loop"
  /\ k \in (DOMAIN iParams) \ iDone
  /\ LET r == InfraPutParam(iStore, iTitle, k, iParams[k], iOverwrite, faults)
     IN  /\ iStore' = r.store
         /\ iFailed' = IF r.err # NoErr
                         THEN iFailed \cup {[key |-> k, err |-> r.err]}
                         ELSE iFailed
         /\ IF CollectsError(r.err)
              THEN /\ iErrs' = Append(iErrs, r.err)
                   /\ iBackup' = iBackup
              ELSE /\ iErrs' = iErrs
                   /\ iBackup' = MergeBackup(iBackup, r.old)
  /\ iDone' = iDone \cup {k}
  /\ UNCHANGED <<iPc, iTitle, iParams, iOverwrite, iRet>>

\* after the loop: errs to stderr when there are any, backup to stdout,
\* return nil
ImportReturn ==
  /\ iPc = "loop"
  /\ iDone = DOMAIN iParams
  /\ iRet' = [stderr |-> iErrs, stdout |-> iBackup, printed |-> TRUE, err |-> NoErr]
  /\ iPc' = "done"
  /\ UNCHANGED <<iStore, iTitle, iParams, iOverwrite, iDone, iErrs, iBackup, iFailed>>

(***************************************************************************)
(*        infra.Infra.Param / PutParam / DeleteParam / RunPStoreDelete     *)
(***************************************************************************)
\* The ways a parameter can be named on the command line: relative,
\* app-qualified, and the absolute path that the listing prints.
CliKeys == { <<"A">>, <<"app", "/", "A">>, <<"/", "app", "/", "A">>, <<"B">> }

\* args of the delete command: no argument, an empty one, or a key
CliArgs == { <<>>, << <<>> >> } \cup { <<k>> : k \in CliKeys }

\* Backend requests that fail during one command.
CliFaults == { {}, {"GetParameter"}, {"DeleteParameter"} }

\* c.Delete as one call: the new store, the returned value and error.
ClientDelete(st, key, faults) ==
  LET r == Param(st, key, faults)
      d == DeleteParameter(st, key, faults)
  IN  IF r.err # NoErr
        THEN [store |-> st, result |-> r.value, err |-> Wrap(r.err, "c.Param failed")]
      ELSE IF d.err # "none"
        THEN [store |-> d.store, result |-> r.value,
              err |-> ToSystem(d.err, "c.api.DeleteParameter failed")]
      ELSE [store |-> d.store, result |-> r.value, err |-> NoErr]

\* i.Param: the path asked for, the value and the error.
InfraParam(st, appTitle, key, faults) ==
  IF appTitle = <<>>
    THEN [path |-> <<>>, value |-> "", err |-> Failure("System", "appTitle is empty")]
    ELSE LET path == EnsurePathPrefix(Qualify(appTitle, key))
             p == Param(st, path, faults)
         IN  IF p.err # NoErr
               THEN [path |-> path, value |-> "",
                     err |-> Wrap(p.err, "i.PStoreAPI.Param failed")]
               ELSE [path |-> path, value |-> p.value, err |-> NoErr]

\* i.DeleteParam: the path asked for, the new store, the map {path: value}
\* (nil on error) and the error.
InfraDeleteParam(st, appTitle, key, faults) ==
  LET path == EnsurePathPrefix(Qualify(appTitle, key))
      r == ClientDelete(st, path, faults)
  IN  IF r.err # NoErr
        THEN [path |-> path, store |-> r.store, result |-> EmptyMap,
              err |-> Wrap(r.err, "i.PStoreAPI.Delete failed")]
        ELSE [path |-> path, store |-> r.store, result |-> [k \in {path} |-> r.result],
              err |-> NoErr]

VARIABLES
  cStore,   \* the parameters held by the backend
  cLast     \* the last Infra call or command and its outcome

cvars == <<cStore, cLast>>

\* op: the call; path: the store path it used; callErr: the error of the
\* Infra call; stdout/printed: what DisplayJson wrote; err: what the command
\* returned (a non-nil error is exit code 1).
NoCli == [op |-> "none", title |-> <<>>, key |-> <<>>, path |-> <<>>,
          callErr |-> NoErr, stdout |-> EmptyMap, printed |-> FALSE, err |-> NoErr]

CInit ==
  /\ cStore = EmptyStore
  /\ cLast = NoCli

\* i.Param(ctx, appTitle, key)
InfraParamOp(title, key, faults) ==
  /\ LET r == InfraParam(cStore, title, key, faults)
     IN  cLast' = [NoCli EXCEPT !.op = "Param", !.title = title, !.key = key,
                                !.path = r.path, !.callErr = r.err, !.err = r.err]
  /\ cStore' = cStore

\* i.PutParam(ctx, appTitle, key, value, overwrite)
InfraPutOp(title, key, value, overwrite, faults) ==
  /\ LET r == InfraPutParam(cStore, title, key, value, overwrite, faults)
     IN  /\ cLast' = [NoCli EXCEPT !.op = "PutParam", !.title = title, !.key = key,
                        !.path = IF title = <<>> THEN <<>>
                                 ELSE EnsurePathPrefix(Qualify(title, key)),
                        !.callErr = r.err, !.err = r.err]
         /\ cStore' = r.store

\* i.DeleteParam(ctx, appTitle, key)
InfraDeleteOp(title, key, faults) ==
  /\ LET r == InfraDeleteParam(cStore, title, key, faults)
     IN  /\ cLast' = [NoCli EXCEPT !.op = "DeleteParam", !.title = title, !.key = key,
                                   !.path = r.path, !.callErr = r.err, !.err = r.err]
         /\ cStore' = r.store

\* RunPStoreDelete without --all: the checks, LoadService, DeleteParam,
\* DisplayJson(result), return nil.
RunPStoreDelete(title, args, faults, setupOk) ==
  IF ~setupOk
    THEN /\ cLast' = [NoCli EXCEPT !.op = "RunPStoreDelete", !.title = title,
                        !.err = Wrap(Failure("System", "setup"), "i.Validate failed")]
         /\ cStore' = cStore
  ELSE IF Len(args) = 0 \/ args[1] = <<>>
    THEN /\ cLast' = [NoCli EXCEPT !.op = "RunPStoreDelete", !.title = title,
                        !.err = Failure("System", "parameter name is missing")]
         /\ cStore' = cStore
  ELSE LET r == InfraDeleteParam(cStore, title, args[1], faults)
       IN  /\ cLast' = [NoCli EXCEPT !.op = "RunPStoreDelete", !.title = title,
                          !.key = args[1], !.path = r.path, !.callErr = r.err,
                          !.stdout = r.result, !.printed = TRUE, !.err = NoErr]
           /\ cStore' = r.store

(***************************************************************************)
(*       apigw.RestRunner.Handle / cog.PreSignupRunner.Handle              *)
(***************************************************************************)
\* A failure as the adapters inspect it: kind, messages, and the status code
\* and invalid fields that a RestAPI failure may carry (<<>>: none).
AFailure(kind, m, code, fields) ==
  [kind |-> kind, msg |-> <<m>>, code |-> code, fields |-> fields]

ANoErr == [kind |-> "nil", msg |-> <<>>, code |-> <<>>, fields |-> <<>>]

AWrap(e, m) == IF e = ANoErr THEN ANoErr ELSE [e EXCEPT !.msg = <<m>> \o e.msg]

IsPanic(e) == e.kind = "Panic"
IsTimeout(e) == e.kind = "Timeout"
IsRestAPI(e) == e.kind = "RestAPI"

\* failure.RestStatusCode: the code and whether there is one
RestStatusCode(e) == IF IsRestAPI(e) THEN e.code ELSE <<>>

\* The errors WithTimeConstraint can return to an adapter.
RunnerErrs ==
       { AFailure(k, "handler failed", <<>>, <<>>) :
           k \in {"NotFound", "NotAuthorized", "NotAuthenticated", "Validation", "System"} }
  \cup { AFailure("Panic", "invocation", <<>>, <<>>),
         AFailure("Timeout", "invocation timeout", <<>>, <<>>) }
  \cup { AFailure("RestAPI", "bad input", c, f) :
           c \in { <<>>, <<400>>, <<422>> }, f \in { <<>>, <<"name">> } }

\* http.StatusText
StatusText(code) ==
  CASE code = 200 -> "OK"
    [] code = 204 -> "No Content"
    [] code = 400 -> "Bad Request"
    [] code = 401 -> "Unauthorized"
    [] code = 403 -> "Forbidden"
    [] code = 404 -> "Not Found"
    [] code = 422 -> "Unprocessable Entity"
    [] code = 500 -> "Internal Server Error"
    [] code = 502 -> "Bad Gateway"
    [] code = 504 -> "Gateway Timeout"
    [] OTHER -> ""

\* A response body: plain text, or the JSON document of an ErrorResponse.
TextBody(t) ==
  [json |-> FALSE, text |-> t, id |-> "", status |-> 0, message |-> "", fields |-> <<>>]

JsonBody(id, status, message, fields) ==
  [json |-> TRUE, text |-> "", id |-> id, status |-> status, message |-> message,
   fields |-> fields]

\* events.APIGatewayProxyResponse; Headers is a map or nil (<<>>: nil,
\* <<m>>: the map m)
Response(status, headers, body) == [status |-> status, headers |-> headers, body |-> body]

ZeroResponse == Response(0, <<>>, TextBody(""))

\* (variant: the two access failures answer with each other's status)
FailureToGatewayResponseSwapped(e) ==
  LET code ==
        IF IsPanic(e) THEN 502
        ELSE IF IsTimeout(e) THEN 504
        ELSE IF IsRestAPI(e)
          THEN (IF RestStatusCode(e) = <<>> THEN 500 ELSE RestStatusCode(e)[1])
        ELSE IF e.kind = "NotFound" THEN 404
        ELSE IF e.kind = "NotAuthorized" THEN 403
        ELSE IF e.kind = "NotAuthenticated" THEN 401
        ELSE 500
  IN  Response(code, <<>>, TextBody(StatusText(code)))

\* apigw.FailureToGatewayResponse
FailureToGatewayResponse(e) ==
  LET code ==
        IF IsPanic(e) THEN 502
        ELSE IF IsTimeout(e) THEN 504
        ELSE IF IsRestAPI(e)
          THEN (IF RestStatusCode(e) = <<>> THEN 500 ELSE RestStatusCode(e)[1])
        ELSE IF e.kind = "NotFound" THEN 404
        ELSE IF e.kind = "NotAuthorized" THEN 401
        ELSE IF e.kind = "NotAuthenticated" THEN 403
        ELSE 500
  IN  Response(code, <<>>, TextBody(StatusText(code)))

\* The request: its header map (nil or a map) and its request id.
HeaderMaps == { <<>>, << [h \in {"Accept"} |-> "*/*"] >> }
Requests == [headers : HeaderMaps, id : {"r1", "r2"}]

\* What the feature hands back on success: nil, or a Success with its status
\* code, headers, body (a string or another value) and optional SuccessFn.
NilSuccess == [isNil |-> TRUE, code |-> 0, headers |-> <<>>, body |-> "", fn |-> "none"]
Successes ==
  {NilSuccess} \cup
  [isNil : {FALSE}, code : {200, 204, 500}, headers : HeaderMaps,
   body : {"string", "struct"}, fn : {"none", "ok", "fail"}]

\* m[k] = v on a map
SetHeader(m, k, v) == [h \in (DOMAIN m) \cup {k} |-> IF h = k THEN v ELSE m[h]]

\* ProcessFailure: the response and error, or a run-time panic.
ProcessFailure(e, req) ==
  LET resp == FailureToGatewayResponse(e)
      headers == IF req.headers # <<>> THEN req.headers ELSE resp.headers
      msg == StatusText(resp.status)
      message == IF IsRestAPI(e) THEN e.msg[1] ELSE msg
      status == IF IsRestAPI(e) /\ RestStatusCode(e) # <<>>
                  THEN RestStatusCode(e)[1] ELSE resp.status
      fields == IF IsRestAPI(e) THEN e.fields ELSE <<>>
      level == IF resp.status >= 500 THEN "error" ELSE "warn"
  IN  IF headers = <<>>
        \* resp.Headers[...] = "*" on a nil map
        THEN [panics |-> TRUE, resp |-> resp, err |-> ANoErr, log |-> level]
        ELSE [panics |-> FALSE,
              resp |-> Response(resp.status,
                         << SetHeader(SetHeader(headers[1],
                                                "Access-Control-Allow-Origin", "*"),
                                      "Content-Type", "application/json") >>,
                         JsonBody(req.id, status, message, fields)),
              err |-> ANoErr, log |-> level]

\* ProcessSuccess
ProcessSuccess(s, req) ==
  IF s.isNil
    THEN [resp |-> ZeroResponse,
          err |-> AFailure("System", "Success struct can not be nil", <<>>, <<>>)]
  ELSE IF s.fn = "fail"
    THEN [resp |-> ZeroResponse,
          err |-> AWrap(AFailure("System", "SuccessFn", <<>>, <<>>), "s.SuccessFn failed")]
  ELSE IF s.fn = "ok"
    THEN [resp |-> Response(s.code, s.headers, TextBody("custom")), err |-> ANoErr]
  ELSE LET code == IF s.code >= 200 /\ s.code < 400 THEN s.code ELSE 200
           h0 == IF s.headers # <<>> /\ DOMAIN s.headers[1] # {}
                   THEN s.headers[1] ELSE [h \in {} |-> ""]
           h1 == IF "Access-Control-Allow-Origin" \in DOMAIN h0 THEN h0
                 ELSE SetHeader(h0, "Access-Control-Allow-Origin", "*")
       IN  IF code = 204
             THEN [resp |-> Response(code, <<h1>>, TextBody("")), err |-> ANoErr]
           ELSE IF s.body = "string"
             THEN [resp |-> Response(code, << SetHeader(h1, "Content-Type", "text/plain") >>,
                                     TextBody("string")),
                   err |-> ANoErr]
           ELSE [resp |-> Response(code, << SetHeader(h1, "Content-Type", "application/json") >>,
                                   TextBody("")),
                 err |-> ANoErr]

\* (variant: the runner is called before the logger is put in the context)
RestStepsRunnerFirst ==
  << "start", "InitializeRequestContext", "RequestLogger", "WithTimeConstraint",
     "SetInvocationLogger", "elapsed", "respond" >>

\* The statements of RestRunner.Handle, in order.
RestSteps ==
  << "start", "InitializeRequestContext", "RequestLogger", "SetInvocationLogger",
     "WithTimeConstraint", "elapsed", "respond" >>

\* The statements of PreSignupRunner.Handle, in order.
PreSignupSteps ==
  << "setPreSignupEvent", "PreSignupLogger", "SetInvocationLogger", "start",
     "WithTimeConstraint", "elapsed", "respond" >>

VARIABLES
  aKind,     \* "none", "rest" or "presignup": the adapter invoked
  aState,    \* "idle", "running", "done" or "panicked"
  aPc,       \* index of the next statement of Handle
  aReq,      \* the request
  aCtx,      \* the values stored in ctx
  aLogger,   \* the local logger has been built
  aRunCtx,   \* the ctx values WithTimeConstraint was called with
  aErr,      \* err, as returned by WithTimeConstraint
  aSuccess,  \* success, as set by handlerFn
  aTrace,    \* the statements executed so far
  aLog,      \* level of the entry written by the adapter
  aRet       \* what Handle returned

avars == <<aKind, aState, aPc, aReq, aCtx, aLogger, aRunCtx, aErr, aSuccess,
           aTrace, aLog, aRet>>

AInit ==
  /\ aKind = "none"
  /\ aState = "idle"
  /\ aPc = 1
  /\ aReq = [headers |-> <<>>, id |-> ""]
  /\ aCtx = {}
  /\ aLogger = FALSE
  /\ aRunCtx = {}
  /\ aErr = ANoErr
  /\ aSuccess = NilSuccess
  /\ aTrace = <<>>
  /\ aLog = ""
  /\ aRet = [resp |-> ZeroResponse, err |-> ANoErr]

Steps == IF aKind = "rest" THEN RestSteps ELSE PreSignupSteps

Cur == IF aState = "running" /\ aPc <= Len(Steps) THEN Steps[aPc] ELSE ""

Advance(name) ==
  /\ aTrace' = Append(aTrace, name)
  /\ aPc' = aPc + 1

\* Lambda invokes Handle with a request.
HandleCall(kind, req) ==
  /\ aState = "idle"
  /\ aKind' = kind
  /\ aReq' = req
  /\ aState' = "running"
  /\ UNCHANGED <<aPc, aCtx, aLogger, aRunCtx, aErr, aSuccess, aTrace, aLog, aRet>>

\* start := time.Now()
StartClock ==
  /\ Cur = "start"
  /\ Advance("start")
  /\ UNCHANGED <<aKind, aState, aReq, aCtx, aLogger, aRunCtx, aErr, aSuccess, aLog, aRet>>

\* ctx = InitializeRequestContext(ctx, req) / ctx = setPreSignupEvent(ctx, e)
SetEvent ==
  /\ Cur \in {"InitializeRequestContext", "setPreSignupEvent"}
  /\ aCtx' = aCtx \cup {"event"}
  /\ Advance(Cur)
  /\ UNCHANGED <<aKind, aState, aReq, aLogger, aRunCtx, aErr, aSuccess, aLog, aRet>>

\* logger := RequestLogger(ctx, h.logger, req) / PreSignupLogger(ctx, p.logger, e)
BuildLogger ==
  /\ Cur \in {"RequestLogger", "PreSignupLogger"}
  /\ aLogger' = TRUE
  /\ Advance(Cur)
  /\ UNCHANGED <<aKind, aState, aReq, aCtx, aRunCtx, aErr, aSuccess, aLog, aRet>>

\* ctx = logging.SetInvocationLogger(ctx, logger)
SetInvocationLogger ==
  /\ Cur = "SetInvocationLogger"
  /\ aCtx' = aCtx \cup {"invocationLogger"}
  /\ Advance(Cur)
  /\ UNCHANGED <<aKind, aState, aReq, aLogger, aRunCtx, aErr, aSuccess, aLog, aRet>>

\* _, err = timeout.WithTimeConstraint(ctx, handlerFn) returns: nil with the
\* feature's Success, or an error.
RunnerReturns(e, s) ==
  /\ Cur = "WithTimeConstraint"
  /\ \/ e = ANoErr
     \/ e # ANoErr /\ s = NilSuccess
  /\ aRunCtx' = aCtx
  /\ aErr' = e
  /\ aSuccess' = IF aKind = "rest" THEN s ELSE NilSuccess
  /\ Advance(Cur)
  /\ UNCHANGED <<aKind, aState, aReq, aCtx, aLogger, aLog, aRet>>

\* WithTimeConstraint does not return: the handler's panic unwinds through
\* it (context without a deadline) and through Handle.
RunnerPanics ==
  /\ Cur = "WithTimeConstraint"
  /\ aRunCtx' = aCtx
  /\ aTrace' = Append(aTrace, Cur)
  /\ aState' = "panicked"
  /\ UNCHANGED <<aKind, aPc, aReq, aCtx, aLogger, aErr, aSuccess, aLog, aRet>>

\* elapsed := time.Since(start) / time.Millisecond
MeasureElapsed ==
  /\ Cur = "elapsed"
  /\ Advance(Cur)
  /\ UNCHANGED <<aKind, aState, aReq, aCtx, aLogger, aRunCtx, aErr, aSuccess, aLog, aRet>>

\* RestRunner.Handle from `if err != nil` to its return.
RestRespond ==
  /\ Cur = "respond"
  /\ aKind = "rest"
  /\ aTrace' = Append(aTrace, Cur)
  /\ IF aErr # ANoErr
       THEN LET r == ProcessFailure(aErr, aReq)
            IN  /\ aLog' = r.log
                /\ IF r.panics
                     THEN /\ aState' = "panicked"
                          /\ aRet' = aRet
                     ELSE /\ aState' = "done"
                          /\ aRet' = [resp |-> r.resp,
                                      err |-> AWrap(r.err, "ProcessFailure failed")]
       ELSE LET r == ProcessSuccess(aSuccess, aReq)
            IN  /\ aState' = "done"
                /\ aLog' = IF r.err = ANoErr THEN "info" ELSE ""
                /\ aRet' = [resp |-> r.resp,
                            err |-> AWrap(r.err, "ProcessSuccess failed")]
  /\ UNCHANGED <<aKind, aPc, aReq, aCtx, aLogger, aRunCtx, aErr, aSuccess>>

\* PreSignupRunner.Handle from logger.With("elapsed_ms", ...) to `return err`.
PreSignupRespond ==
  /\ Cur = "respond"
  /\ aKind = "presignup"
  /\ aTrace' = Append(aTrace, Cur)
  /\ aLog' = IF aErr # ANoErr /\ ~IsTimeout(aErr) /\ ~IsPanic(aErr) THEN "error" ELSE ""
  /\ aRet' = [resp |-> ZeroResponse, err |-> aErr]
  /\ aState' = "done"
  /\ UNCHANGED <<aKind, aPc, aReq, aCtx, aLogger, aRunCtx, aErr, aSuccess>>

(***************************************************************************)
(*                 pstore.Client.Params / Collect                          *)
(***************************************************************************)
MaxKeys == 2

\* The variadic keys argument.
KeyLists == SeqsUpTo(Keys, MaxKeys)

\* Backend requests that fail with a transport error during one call.
BatchFaults == { {}, {"GetParameter"}, {"GetParameters"} }

\* The backend's GetParameters: the parameters it holds among the names, the
\* names it does not hold as InvalidParameters; a request with an empty name
\* is rejected.
GetParameters(st, names, faults) ==
  IF "GetParameters" \in faults
    THEN [err |-> "RequestError", parameters |-> <<>>, invalid |-> <<>>]
  ELSE IF \E i \in 1..Len(names) : names[i] = <<>>
    THEN [err |-> "ValidationException", parameters |-> <<>>, invalid |-> <<>>]
  ELSE LET found == SelectSeq(names, LAMBDA n : n \in DOMAIN st)
       IN  [err |-> "none",
            parameters |-> [i \in 1..Len(found) |-> Prm(found[i], st[found[i]])],
            invalid |-> SelectSeq(names, LAMBDA n : n \notin DOMAIN st)]

\* The loop of c.Params: errs after the last key, or the panic of
\* `result[key] = value` on the nil map result.
RECURSIVE ParamsLoop(_, _, _, _)
ParamsLoop(st, keys, faults, errs) ==
  IF keys = <<>> THEN [panics |-> FALSE, errs |-> errs]
  ELSE LET r == Param(st, Head(keys), faults)
       IN  IF r.err # NoErr
             \* errs = failure.Append(err)
             THEN ParamsLoop(st, Tail(keys), faults, << Wrap(r.err, "c.Param failed") >>)
             ELSE [panics |-> TRUE, errs |-> errs]

\* c.Params: var result map[string]string is never made.
Params(st, keys, faults) ==
  LET l == ParamsLoop(st, keys, faults, <<>>)
  IN  [panics |-> l.panics, result |-> EmptyMap, isNil |-> TRUE, invalid |-> <<>>,
       err |-> IF l.panics THEN NoErr ELSE ErrorOrNil(l.errs)]

\* (variant: a name the backend does not hold fails the call)
CollectFailsOnInvalid(st, keys, faults) ==
  IF Len(keys) = 0
    THEN [panics |-> FALSE, result |-> EmptyMap, isNil |-> TRUE, invalid |-> <<>>,
          err |-> Failure("System", "keys must have at least one key")]
    ELSE LET o == GetParameters(st, keys, faults)
         IN  IF o.err # "none" \/ o.invalid # <<>>
               THEN [panics |-> FALSE, result |-> EmptyMap, isNil |-> TRUE,
                     invalid |-> <<>>,
                     err |-> ToSystem(o.err, "c.api.GetParametersWithContext failed")]
               ELSE [panics |-> FALSE, result |-> MergePage(EmptyMap, o.parameters),
                     isNil |-> FALSE,
                     invalid |-> SelectSeq(o.invalid, LAMBDA i : i # <<>>),
                     err |-> NoErr]

\* c.Collect
Collect(st, keys, faults) ==
  IF Len(keys) = 0
    THEN [panics |-> FALSE, result |-> EmptyMap, isNil |-> TRUE, invalid |-> <<>>,
          err |-> Failure("System", "keys must have at least one key")]
    ELSE LET o == GetParameters(st, keys, faults)
         IN  IF o.err # "none"
               THEN [panics |-> FALSE, result |-> EmptyMap, isNil |-> TRUE,
                     invalid |-> <<>>,
                     err |-> ToSystem(o.err, "c.api.GetParametersWithContext failed")]
               ELSE [panics |-> FALSE, result |-> MergePage(EmptyMap, o.parameters),
                     isNil |-> FALSE,
                     invalid |-> SelectSeq(o.invalid, LAMBDA i : i # <<>>),
                     err |-> NoErr]

VARIABLES
  bLast    \* the last Params or Collect call and its outcome

bvars == <<bLast>>

NoBatch == [op |-> "none", keys |-> <<>>, faults |-> {}, pre |-> EmptyStore,
            panics |-> FALSE, result |-> EmptyMap, isNil |-> TRUE,
            invalid |-> <<>>, err |-> NoErr]

BInit == bLast = NoBatch

BatchDone(op, keys, faults, r) ==
  [op |-> op, keys |-> keys, faults |-> faults, pre |-> store,
   panics |-> r.panics, result |-> r.result, isNil |-> r.isNil,
   invalid |-> r.invalid, err |-> r.err]

\* c.Params(ctx, keys...)
ParamsOp(keys, faults) ==
  /\ pPc = "idle"
  /\ bLast' = BatchDone("Params", keys, faults, Params(store, keys, faults))
  /\ UNCHANGED pvars

\* c.Collect(ctx, keys...)
CollectOp(keys, faults) ==
  /\ pPc = "idle"
  /\ bLast' = BatchDone("Collect", keys, faults, Collect(store, keys, faults))
  /\ UNCHANGED pvars

\* Another client of the backend writes a parameter.
ExternalWrite(name, value) ==
  /\ store' = PutParameter(store, name, value, TRUE, {}).store
  /\ UNCHANGED <<pPc, pend, last>>

(***************************************************************************)
(*                      dynamo.Client.Write / Put                          *)
(***************************************************************************)
\* Items: a key attribute and a value attribute.
Items == [pk : {"k1", "k2"}, val : {"v1", "v2"}]

\* row.ConditionExpr(): nil (<<>>) or an expression
CondExprs == { <<>>, <<"attribute_not_exists(#pk)">> }

\* row.ExprAttrNames()
AttrNames == { [n \in {} |-> ""], [n \in {"#pk"} |-> "pk"] }

\* A Writable: whether ToItem succeeds, its item, condition and names.
Rows == [itemOk : BOOLEAN, item : Items, cond : CondExprs, names : AttrNames]

\* c.NewPutInput(item): no condition is passed
NewPutInput(item) == [item |-> item, cond |-> <<>>, names |-> [n \in {} |-> ""]]

\* The backend's PutItem: a conditional put of an existing key is refused.
PutItem(tbl, in, fails) ==
  IF fails THEN [err |-> "RequestError", table |-> tbl]
  ELSE IF in.cond # <<>> /\ in.item.pk \in DOMAIN tbl
    THEN [err |-> "ConditionalCheckFailedException", table |-> tbl]
  ELSE [err |-> "none",
        table |-> [k \in (DOMAIN tbl) \cup {in.item.pk} |->
                     IF k = in.item.pk THEN in.item.val ELSE tbl[k]]]

\* The request c.Write builds: `if expr := row.ConditionExpr(); err != nil`
\* tests err, which is nil after the check of ToItem's error.
WriteInput(row, toItemErr) ==
  LET in == NewPutInput(row.item)
  IN  IF toItemErr # NoErr
        THEN [in EXCEPT !.cond = row.cond,
                        !.names = IF DOMAIN row.names # {} THEN row.names ELSE in.names]
        ELSE in

VARIABLES
  dTable,   \* the items of the table, by key
  dLast     \* the last call: its row, the requests sent and the error

dvars == <<dTable, dLast>>

NoRow == [itemOk |-> TRUE, item |-> [pk |-> "", val |-> ""], cond |-> <<>>,
          names |-> [n \in {} |-> ""]]

NoDynamo == [op |-> "none", row |-> NoRow, sent |-> <<>>, err |-> NoErr]

DInit ==
  /\ dTable = [k \in {} |-> ""]
  /\ dLast = NoDynamo

\* c.Write(ctx, row)
WriteOp(row, fails) ==
  IF ~row.itemOk
    THEN /\ dLast' = [op |-> "Write", row |-> row, sent |-> <<>>,
                      err |-> Wrap(Failure("System", "ToItem"), "row.ToTime failed")]
         /\ dTable' = dTable
    ELSE LET in == WriteInput(row, NoErr)
             r == PutItem(dTable, in, fails)
         IN  /\ dLast' = [op |-> "Write", row |-> row, sent |-> <<in>>,
                          err |-> IF r.err # "none"
                                    THEN Wrap(Failure("System", r.err), "c.api.PutItem failed")
                                    ELSE NoErr]
             /\ dTable' = r.table

\* c.Put(ctx, item)
DynamoPutOp(item, fails) ==
  LET in == NewPutInput(item)
      r == PutItem(dTable, in, fails)
  IN  /\ dLast' = [op |-> "Put", row |-> [NoRow EXCEPT !.item = item], sent |-> <<in>>,
                   err |-> IF r.err # "none" THEN ToSystem(r.err, "c.api.PutItem failed")
                           ELSE NoErr]
      /\ dTable' = r.table

(***************************************************************************)
(*                          Specifications                                 *)
(***************************************************************************)
vars == <<tvars, pvars, gvars, evars, ivars, cvars, avars, bvars, dvars>>

Init == TInit /\ PInit /\ GInit /\ EInit /\ IInit /\ CInit /\ AInit /\ BInit /\ DInit

CallerStep ==
  /\ SyncRun \/ SelectCompleted \/ SelectTimer \/ SetTimeout \/ Return
  /\ UNCHANGED <<pvars, gvars, evars, ivars, cvars, avars, bvars, dvars>>

TaskStep ==
  /\ HandlerReturn \/ HandlerPanic \/ RecoverSetErr \/ RecoverLog
  /\ UNCHANGED <<pvars, gvars, evars, ivars, cvars, avars, bvars, dvars>>

ClockStep == Tick /\ UNCHANGED <<pvars, gvars, evars, ivars, cvars, avars, bvars, dvars>>

NextTimeout ==
  \/ /\ \E d \in BOOLEAN, u \in Untils, h \in Handlers : Call(d, u, h)
     /\ UNCHANGED <<pvars, gvars, evars, ivars, cvars, avars, bvars, dvars>>
  \/ CallerStep
  \/ TaskStep
  \/ ClockStep

NextPStore ==
  /\ \/ \E k \in Keys, f \in FaultSets : ParamOp(k, f)
     \/ \E k \in Keys, f \in FaultSets : DeleteOp(k, f)
     \/ \E k \in Keys, v \in Values, o \in Overwrites, f \in FaultSets :
          PutRead(k, v, o, f)
     \/ PutWrite
  /\ UNCHANGED <<tvars, gvars, evars, ivars, cvars, avars, bvars, dvars>>

NextPath ==
  /\ \/ \E k \in Keys, c \in BOOLEAN, pgs \in PageLists, a \in BOOLEAN,
            down \in BOOLEAN : PathCall(k, c, pgs, a, down)
     \/ NextPageOk
     \/ NextPageFail
     \/ PathReturn
  /\ UNCHANGED <<tvars, pvars, evars, ivars, cvars, avars, bvars, dvars>>

NextEnv ==
  /\ \/ \E s \in Services, wt \in BOOLEAN, no \in BOOLEAN : EnvCall(s, wt, no)
     \/ \E f \in FeatureTitles : NextFeature(f)
     \/ \E f \in FeatureTitles : FeatureFails(f)
     \/ \E n \in EnvNames : EnvEntry(n)
     \/ FeatureDone
     \/ EnvReturn
  /\ UNCHANGED <<tvars, pvars, gvars, ivars, cvars, avars, bvars, dvars>>

NextImport ==
  /\ \/ \E st \in ImportStores, t \in AppTitles, ps \in ImportParams,
            ow \in BOOLEAN, ok \in BOOLEAN : ImportCall(st, t, ps, ow, ok)
     \/ \E k \in ImportKeys, f \in ImportFaults : ImportPut(k, f)
     \/ ImportReturn
  /\ UNCHANGED <<tvars, pvars, gvars, evars, cvars, avars, bvars, dvars>>

NextInfra ==
  /\ \/ \E t \in AppTitles, k \in CliKeys, f \in CliFaults : InfraParamOp(t, k, f)
     \/ \E t \in AppTitles, k \in CliKeys, v \in Values, o \in BOOLEAN,
           f \in ImportFaults : InfraPutOp(t, k, v, o, f)
     \/ \E t \in AppTitles, k \in CliKeys, f \in CliFaults : InfraDeleteOp(t, k, f)
     \/ \E t \in AppTitles, a \in CliArgs, f \in CliFaults, ok \in BOOLEAN :
          RunPStoreDelete(t, a, f, ok)
  /\ UNCHANGED <<tvars, pvars, gvars, evars, ivars, avars, bvars, dvars>>

NextAdapter ==
  /\ \/ \E k \in {"rest", "presignup"}, r \in Requests : HandleCall(k, r)
     \/ StartClock
     \/ SetEvent
     \/ BuildLogger
     \/ SetInvocationLogger
     \/ \E e \in RunnerErrs \cup {ANoErr}, s \in Successes : RunnerReturns(e, s)
     \/ RunnerPanics
     \/ MeasureElapsed
     \/ RestRespond
     \/ PreSignupRespond
  /\ UNCHANGED <<tvars, pvars, gvars, evars, ivars, cvars, bvars, dvars>>

NextBatch ==
  \/ /\ \/ \E ks \in KeyLists, f \in BatchFaults : ParamsOp(ks, f)
        \/ \E ks \in KeyLists, f \in BatchFaults : CollectOp(ks, f)
     /\ UNCHANGED <<tvars, gvars, evars, ivars, cvars, avars, dvars>>
  \/ /\ \E n \in StoreKeys, v \in Values : ExternalWrite(n, v)
     /\ UNCHANGED <<tvars, gvars, evars, ivars, cvars, avars, bvars, dvars>>

\* The key that Put and the other client both write, and the requests of
\* that Put that can fail.
RaceKeys == { <<"/", "app", "/", "A">> }
RaceFaults == { {}, {"PutParameter"} }

\* Put running against another client of the backend.
NextPutRace ==
  \/ /\ \/ \E k \in RaceKeys, v \in Values, o \in Overwrites, f \in RaceFaults :
             PutRead(k, v, o, f)
        \/ PutWrite
        \/ \E n \in RaceKeys, v \in Values : ExternalWrite(n, v)
     /\ UNCHANGED <<tvars, gvars, evars, ivars, cvars, avars, bvars, dvars>>

NextDynamo ==
  /\ \/ \E r \in Rows, f \in BOOLEAN : WriteOp(r, f)
     \/ \E i \in Items, f \in BOOLEAN : DynamoPutOp(i, f)
  /\ UNCHANGED <<tvars, pvars, gvars, evars, ivars, cvars, avars, bvars>>

Next ==
  \/ NextTimeout \/ NextPStore \/ NextPath \/ NextEnv \/ NextImport
  \/ NextInfra \/ NextAdapter \/ NextBatch \/ NextPutRace \/ NextDynamo

Spec == Init /\ [][Next]_vars

SpecTimeout == Init /\ [][NextTimeout]_vars

\* The timer fires and the scheduler runs both flows.
FairTimeout ==
  SpecTimeout /\ WF_vars(ClockStep) /\ WF_vars(CallerStep) /\ WF_vars(TaskStep)

SpecPStore == Init /\ [][NextPStore]_vars

SpecPath == Init /\ [][NextPath]_vars

\* The iterations of the loop of ResolvePathPages and its return.
PathLoopStep ==
  /\ NextPageOk \/ NextPageFail \/ PathReturn
  /\ UNCHANGED <<tvars, pvars, evars, ivars, cvars, avars, bvars, dvars>>

\* The loop keeps running; nothing is assumed of the backend's answers.
FairPath == SpecPath /\ WF_vars(PathLoopStep)

SpecEnv == Init /\ [][NextEnv]_vars

SpecImport == Init /\ [][NextImport]_vars

SpecInfra == Init /\ [][NextInfra]_vars

SpecAdapter == Init /\ [][NextAdapter]_vars

SpecBatch == Init /\ [][NextBatch]_vars

SpecPutRace == Init /\ [][NextPutRace]_vars

SpecDynamo == Init /\ [][NextDynamo]_vars

(***************************************************************************)
(*                     Properties of the runner                            *)
(***************************************************************************)

\* C1: with a deadline the caller of WithTimeConstraint returns exactly
\* once, through exactly one of the two select branches, and it always
\* returns, also when the handler never finishes.
C1_ReturnsExactlyOnce ==
  /\ [](returns <= 1)
  /\ []((hasDeadline /\ cPc = "returned")
          => (returns = 1 /\ (taken = {"completed"} \/ taken = {"timer"})))
  /\ []((hasDeadline /\ cPc = "select") => <>(cPc = "returned"))

C1_Witness ==
  /\ hasDeadline /\ fn.kind = "hang"
  /\ cPc = "returned" /\ taken = {"timer"} /\ returns = 1

\* C2: a call that left the select through the timer branch returns a
\* Timeout-kind failure.
C2_TimerBranchReturnsTimeout ==
  (cPc = "returned" /\ "timer" \in taken) => ret.err.kind = "Timeout"

\* C3: after a timeout the abandoned task is never left at its send on the
\* completion channel: the caller has left the select for good, so a task in
\* that position stays there forever.
C3_AbandonedTaskTerminates == ~("timer" \in taken /\ Sending)

\* C4: no panic of the handler reaches the caller of WithTimeConstraint, with
\* or without a deadline.
C4_NoPanicEscapes == cPc # "panicked"

\* C5: with a deadline and a panicking handler, the Panic failure is recorded
\* and the log entry written before the completion signal is received, and the
\* caller that leaves through the completion branch returns the Panic failure.
C5_PanicRecordedBeforeSignal ==
  (hasDeadline /\ fn.kind = "panic" /\ "completed" \in taken)
    => /\ err = PanicFailure
       /\ \E i \in 1..Len(logs) : logs[i].panic /\ logs[i].level = "error"
       /\ cPc = "returned" => ret.err.kind = "Panic"

C5_Witness ==
  /\ hasDeadline /\ fn.kind = "panic"
  /\ cPc = "returned" /\ taken = {"completed"}
  /\ ret.err = PanicFailure

\* C12: when the computed budget is zero or negative the call produces a
\* Timeout outcome and never the handler's own result or error.
C12_NoBudgetMeansTimeout ==
  (hasDeadline /\ runTime <= 0 /\ cPc = "returned")
    => (ret.err.kind = "Timeout" /\ ret.out = NoOut)

\* C13: a call that returns on the timeout path returns an empty result
\* value, never one produced by the abandoned handler task.
C13_TimeoutDiscardsResult ==
  (cPc = "returned" /\ "timer" \in taken) => ret.out = NoOut

\* C14: with a deadline, when the handler finishes without panicking and the
\* caller leaves through the completion branch, the call returns exactly the
\* handler's own result and error, never a Timeout or Panic failure.
C14_CompletionReturnsHandlerResult ==
  (hasDeadline /\ cPc = "returned" /\ taken = {"completed"}
               /\ fn.kind \in {"ok", "fail"})
    => /\ ret.out = fn.out
       /\ ret.err = fn.err
       /\ ret.err.kind \notin {"Timeout", "Panic"}

C14_Witness ==
  /\ hasDeadline /\ cPc = "returned" /\ taken = {"completed"}
  /\ fn.kind = "fail" /\ ret.err.kind = "Validation"

C14_WitnessOk ==
  /\ hasDeadline /\ cPc = "returned" /\ taken = {"completed"}
  /\ fn.kind = "ok" /\ ret = [out |-> "resp", err |-> NoErr]

\* C19: the Panic failure returned for a handler that panicked with the value
\* r has a message that carries r.
C19_PanicMessageEmbedsValue ==
  (cPc = "returned" /\ fn.kind = "panic" /\ ret.err.kind = "Panic")
    => \E i \in 1..Len(ret.err.msg) : ret.err.msg[i] = fn.r

(***************************************************************************)
(*                    Properties of pstore.Client                          *)
(***************************************************************************)
PutDone == pPc = "idle" /\ last.op = "Put"

Existed == last.key \in DOMAIN last.pre

\* the call asked for overwriting: overwrite[0] is given and true
AskedOverwrite == last.ow = <<TRUE>>

PutParameterCalls ==
  { i \in 1..Len(last.calls) : last.calls[i].api = "PutParameter" }

\* C6: Put with overwrite=false on an existing key whose value differs from
\* the new one (the empty string included) returns an error that is not
\* NotFound, makes no PutParameter request and leaves the stored value as it
\* was, so that a following Param returns the original value.
C6_NoOverwriteConflict ==
  (PutDone /\ ~AskedOverwrite /\ Existed /\ last.pre[last.key] # last.value)
    => /\ last.err # NoErr
       /\ ~IsNotFound(last.err)
       /\ PutParameterCalls = {}
       /\ store = last.pre
       /\ Param(store, last.key, {}).value = last.pre[last.key]

\* C7: Put on a key whose stored value equals the new value returns that
\* value with no error and makes no PutParameter request, whatever the
\* overwrite flag and the value (the backend answering the read).
C7_SameValueIsNoOp ==
  (PutDone /\ Existed /\ last.pre[last.key] = last.value
           /\ "GetParameter" \notin last.faults)
    => /\ last.result = last.value
       /\ last.err = NoErr
       /\ PutParameterCalls = {}
       /\ store = last.pre

C7_Witness ==
  /\ PutDone /\ Existed /\ last.faults = {}
  /\ last.value = "" /\ last.pre[last.key] = ""
  /\ last.err = NoErr /\ last.calls = <<ApiCall("GetParameter", last.key)>>

\* C8: Put on an absent key, or on an existing key with overwrite=true and a
\* different value, writes the new value (a following Param returns it) and
\* returns the previous value, the empty string when there was none, with no
\* error (the backend answering the requests).
C8_PutWritesAndReturnsOld ==
  (PutDone /\ last.key # <<>> /\ last.faults = {}
           /\ (~Existed \/ (AskedOverwrite /\ last.pre[last.key] # last.value)))
    => /\ last.err = NoErr
       /\ last.result = (IF Existed THEN last.pre[last.key] ELSE "")
       /\ Param(store, last.key, {}) =
            [value |-> last.value, err |-> NoErr,
             calls |-> <<ApiCall("GetParameter", last.key)>>]
       /\ \A k \in (DOMAIN store) \ {last.key} :
            k \in DOMAIN last.pre /\ store[k] = last.pre[k]

C8_Witness ==
  /\ PutDone /\ last.faults = {} /\ Existed /\ AskedOverwrite
  /\ last.pre[last.key] = "x" /\ last.value = "y"
  /\ store[last.key] = "y" /\ last.result = "x"

C8_WitnessAbsent ==
  /\ PutDone /\ last.faults = {} /\ ~Existed /\ last.key # <<>>
  /\ store[last.key] = last.value /\ last.result = ""

OpDone(op) == pPc = "idle" /\ last.op = op

\* what the backend answers to the operation's GetParameter request
BackendAnswers == last.key # <<>> /\ "GetParameter" \notin last.faults

BackendNotFound == BackendAnswers /\ last.key \notin DOMAIN last.pre

BackendOtherError == last.key # <<>> /\ "GetParameter" \in last.faults

CallsOf(api) == { i \in 1..Len(last.calls) : last.calls[i].api = api }

\* C15: Delete on a key that is absent from the store returns a NotFound
\* error, makes no DeleteParameter request and leaves the store unchanged
\* (the backend answering the read).
C15_DeleteAbsentIsNotFound ==
  (OpDone("Delete") /\ BackendNotFound)
    => /\ last.err.kind = "NotFound"
       /\ CallsOf("DeleteParameter") = {}
       /\ store = last.pre

C15_Witness ==
  /\ OpDone("Delete") /\ BackendNotFound
  /\ DOMAIN last.pre # {}
  /\ last.err.kind = "NotFound" /\ store = last.pre

\* C16: Param fails with NotFound exactly when the backend reports the
\* parameter as not found, with System for every other backend error, and
\* with System and no backend request when the key is empty.
C16_ParamErrorKinds ==
  OpDone("Param")
    => /\ (last.err.kind = "NotFound") <=> BackendNotFound
       /\ BackendOtherError => last.err.kind = "System"
       /\ (last.key = <<>>) => (last.err.kind = "System" /\ last.calls = <<>>)
       /\ (last.err = NoErr) <=> (BackendAnswers /\ last.key \in DOMAIN last.pre)

C16_Witness ==
  /\ OpDone("Param") /\ BackendNotFound
  /\ DOMAIN last.pre # {}
  /\ last.err.kind = "NotFound"

C16_WitnessSystem ==
  /\ OpDone("Param") /\ BackendOtherError
  /\ last.key \in DOMAIN last.pre
  /\ last.err.kind = "System"

\* C17: Param on a parameter that exists returns the stored value as it is,
\* with no error, for every value: an existing empty value is not reported as
\* NotFound (the backend answering the read).
C17_ParamReturnsStoredValue ==
  (OpDone("Param") /\ BackendAnswers /\ last.key \in DOMAIN last.pre)
    => /\ last.result = last.pre[last.key]
       /\ last.err = NoErr

C17_Witness ==
  /\ OpDone("Param") /\ BackendAnswers
  /\ last.key \in DOMAIN last.pre /\ last.pre[last.key] = ""
  /\ last.result = "" /\ last.err = NoErr

\* C18: every request the client sends to the backend names a key that
\* starts with "/".
C18_BackendKeysAbsolute ==
  \A i \in 1..Len(last.calls) :
    Len(last.calls[i].name) > 0 /\ last.calls[i].name[1] = "/"

\* C27: with another client writing between Put's read and Put's write, the
\* write of a Put called without overwrite leaves a stored value that
\* differs from the new value as it is.
C27_NoOverwriteNeverReplaces ==
  [][ ( /\ pPc = "put" /\ pPc' = "idle"
        /\ pend.ow # <<TRUE>>
        /\ pend.key \in DOMAIN store
        /\ store[pend.key] # pend.value )
      => ( pend.key \in DOMAIN store' /\ store'[pend.key] = store[pend.key] ) ]_vars

\* The read saw no parameter, another client created it with a different
\* value, and the PutParameter request was refused.
C27_Witness ==
  /\ PutDone /\ ~AskedOverwrite
  /\ last.key \notin DOMAIN last.pre
  /\ PutParameterCalls # {}
  /\ last.key \in DOMAIN store /\ store[last.key] # last.value
  /\ last.err # NoErr /\ last.err.msg[2] = "ParameterAlreadyExists"

(***************************************************************************)
(*                    Properties of Client.Path                            *)
(***************************************************************************)
\* The names a page gives a value to.
PageNames(page) ==
  { page[i].name : i \in { j \in 1..Len(page) :
                             page[j].name # NilName /\ page[j].value # NilStr } }

\* The value a page gives to a name: that of its last entry for the name.
PageValue(page, n) ==
  LET is == { j \in 1..Len(page) : page[j].name = n /\ page[j].value # NilStr }
      last_i == CHOOSE j \in is : \A k \in is : k <= j
  IN  page[last_i].value

\* The pages fetched without error that give a value to n.
FetchedWith(n) == { i \in fetched : n \in PageNames(pages[i]) }

PathRan == gPc = "done" /\ gPath # <<>> /\ ~gRet.isNil

\* C9: Path returns the union of the name->value pairs of the pages fetched
\* without error (a later page's value for a name replacing an earlier one);
\* a failing page does not end the loop, and when a page failed the map is
\* non-nil and the error is non-nil and IsMultiple.
C9_PathAggregates ==
  PathRan
    => /\ pageNum = Len(pages)
       /\ DOMAIN gRet.result = UNION { PageNames(pages[i]) : i \in fetched }
       /\ \A n \in DOMAIN gRet.result :
            LET i == CHOOSE j \in FetchedWith(n) : \A k \in FetchedWith(n) : k <= j
            IN  gRet.result[n] = PageValue(pages[i], n)
       /\ (failed # <<>>) => (gRet.err # NoErr /\ IsMultiple(gRet.err))
       /\ (failed = <<>>) => gRet.err = NoErr

C9_Witness ==
  /\ PathRan
  /\ failed # <<>>
  /\ Cardinality(fetched) = 1 /\ Len(pages) = 2
  /\ DOMAIN gRet.result # {}
  /\ IsMultiple(gRet.err)

\* C26: ResolvePathPages terminates for every pager: once in the loop, Path
\* returns, also when a page fetch fails and the pager has not advanced.
C26_PathTerminates == (gPc = "loop") ~> (gPc = "done")

(***************************************************************************)
(*                  Properties of ServiceEnvReport                         *)
(***************************************************************************)
\* The name handled by the step, when the step is an iteration of the inner
\* range.
IsEnvEntryStep == ePc = "envs" /\ doneE' # doneE

\* C10: a name recorded in the merged map keeps its value: a later feature
\* reporting another value leaves the merged value as first seen, and a later
\* feature reporting the same value adds no conflict.
C10_FirstValueKept ==
  [][ /\ \A n \in DOMAIN merged : n \in DOMAIN merged' /\ merged'[n] = merged[n]
      /\ IsEnvEntryStep =>
           LET n == CHOOSE x \in doneE' : x \notin doneE
           IN  (n \in DOMAIN merged /\ merged[n] = curEnvs[n])
                 => (invalid' = invalid /\ merged' = merged)
    ]_vars

\* a later feature disagreed, and the merged value is the first one
C10_Witness ==
  /\ ePc = "done" /\ ~eRet.isNil
  /\ \E k \in DOMAIN eRet.invalid : \E n \in DOMAIN eRet.invalid[k] :
       /\ n \in DOMAIN eRet.result
       /\ eRet.result[n] # eRet.invalid[k][n]
  /\ Cardinality(DOMAIN svc) = 2

\* two features agreed on a name, and no conflict was recorded
C10_WitnessSame ==
  /\ ePc = "done" /\ ~eRet.isNil
  /\ DOMAIN svc = {1, 2}
  /\ "FOO" \in DOMAIN svc[1] /\ "FOO" \in DOMAIN svc[2]
  /\ svc[1]["FOO"] = svc[2]["FOO"] /\ ~namesOnly
  /\ DOMAIN svc[1] = {"FOO"} /\ DOMAIN svc[2] = {"FOO"}
  /\ eRet.invalid = EmptyInvalid

\* The env map ServiceEnvReport obtained for a feature.
ReportedEnv(f) == IF namesOnly THEN [n \in DOMAIN svc[f] |-> ""] ELSE svc[f]

\* the key under which a feature's conflicts are filed
ConflictKey(f) == IF withTrigger THEN <<"apigw", f>> ELSE <<f>>

\* C11: every disagreement is reported: once all features are processed, for
\* each feature and each name whose value in that feature differs from the
\* merged value, the conflict map's entry of the feature holds the name with
\* the feature's value.
C11_EveryConflictReported ==
  (ePc = "done" /\ ~eRet.isNil)
    => \A f \in DOMAIN svc : \A n \in DOMAIN ReportedEnv(f) :
         (ReportedEnv(f)[n] # eRet.result[n])
           => /\ ConflictKey(f) \in DOMAIN eRet.invalid
              /\ n \in DOMAIN eRet.invalid[ConflictKey(f)]
              /\ eRet.invalid[ConflictKey(f)][n] = ReportedEnv(f)[n]

(***************************************************************************)
(*                  Properties of RunPStoreImport                          *)
(***************************************************************************)
ImportRan == iPc = "done" /\ iRet.printed

\* C20: every PutParam call that fails is collected and reported, whatever
\* the kind of its error, and the remaining keys are still attempted.
C20_ImportReportsEveryFailure ==
  ImportRan
    => /\ iDone = DOMAIN iParams
       /\ \A x \in iFailed : \E j \in 1..Len(iRet.stderr) : iRet.stderr[j] = x.err

(***************************************************************************)
(*                  Properties of the Infra commands                       *)
(***************************************************************************)
DeleteCmdRan == cLast.op = "RunPStoreDelete" /\ cLast.printed

\* C21: RunPStoreDelete for a single parameter returns a non-nil error
\* whenever the underlying DeleteParam fails.
C21_DeleteFailureReturnsError ==
  (DeleteCmdRan /\ cLast.callErr # NoErr) => cLast.err # NoErr

InfraCallRan == cLast.op \in {"Param", "PutParam", "DeleteParam"}

\* C29: for the title "app", Infra.Param, PutParam and DeleteParam use the
\* store path /app/NAME whether the key is NAME, app/NAME or /app/NAME.
C29_SamePathForEveryKeyForm ==
  (InfraCallRan /\ cLast.title = <<"app">>)
    => cLast.path = <<"/", "app", "/", cLast.key[Len(cLast.key)]>>

(***************************************************************************)
(*                    Properties of the adapters                           *)
(***************************************************************************)
Executed(name) == \E i \in 1..Len(aTrace) : aTrace[i] = name

\* RestRunner.Handle went into its failure branch.
FailureBranchTaken == aKind = "rest" /\ aErr # ANoErr /\ Executed("respond")

\* C22: for every runner failure and every request, a nil header map
\* included, Handle completes and returns the JSON error document with the
\* request id, the status and the message.
C22_FailureAlwaysAnswered ==
  FailureBranchTaken =>
    /\ aState = "done"
    /\ aRet.err = ANoErr
    /\ aRet.resp.body.json
    /\ aRet.resp.body.id = aReq.id
    /\ aRet.resp.body.status >= 400
    /\ aRet.resp.body.message # ""

FailureAnswered == FailureBranchTaken /\ aState = "done"

\* C23: the status of the response is 502 for Panic, 504 for Timeout, 404
\* for NotFound, 401 for NotAuthorized, 403 for NotAuthenticated and 500 for
\* every other failure that carries no status code.
C23_StatusOfKind ==
  FailureAnswered =>
    LET k == aErr.kind
        status == aRet.resp.status
    IN  /\ k = "Panic" => status = 502
        /\ k = "Timeout" => status = 504
        /\ k = "NotFound" => status = 404
        /\ k = "NotAuthorized" => status = 401
        /\ k = "NotAuthenticated" => status = 403
        /\ (/\ k \notin {"Panic", "Timeout", "NotFound", "NotAuthorized",
                         "NotAuthenticated"}
            /\ aErr.code = <<>>) => status = 500

C23_Witness ==
  FailureAnswered /\ aErr.kind = "NotAuthorized" /\ aRet.resp.status = 401

C23_WitnessDefault ==
  FailureAnswered /\ aErr.kind = "RestAPI" /\ aErr.code = <<>> /\ aRet.resp.status = 500

\* C24: in both adapters the logger is built and stored in the context before
\* WithTimeConstraint is called, and the elapsed time is measured after
\* WithTimeConstraint has returned.
C24_LoggerBeforeRunnerElapsedAfter ==
  \A i \in 1..Len(aTrace) :
    /\ aTrace[i] = "WithTimeConstraint" =>
         /\ \E j \in 1..(i - 1) :
              /\ aTrace[j] = "SetInvocationLogger"
              /\ \E k \in 1..(j - 1) : aTrace[k] \in {"RequestLogger", "PreSignupLogger"}
         /\ "invocationLogger" \in aRunCtx
    /\ aTrace[i] = "elapsed" =>
         \E j \in 1..(i - 1) : aTrace[j] = "WithTimeConstraint"

C24_Witness ==
  /\ aKind = "rest" /\ aState = "done" /\ IsTimeout(aErr) /\ Executed("elapsed")

C24_WitnessPreSignup ==
  /\ aKind = "presignup" /\ aState = "done" /\ IsPanic(aErr) /\ Executed("elapsed")

(***************************************************************************)
(*                  Properties of Params and Collect                       *)
(***************************************************************************)
BatchRan(op) == bLast.op = op

KeySet == { bLast.keys[i] : i \in 1..Len(bLast.keys) }

\* The backend answered the GetParameters request of the call.
GetParametersAnswered ==
  /\ Len(bLast.keys) > 0
  /\ "GetParameters" \notin bLast.faults
  /\ <<>> \notin KeySet

Resolved == KeySet \cap DOMAIN bLast.pre

\* C25: Collect with at least one key returns the keys the backend did not
\* resolve in the invalid list and the resolved ones in the map, with a nil
\* error.
C25_CollectSeparatesInvalid ==
  (BatchRan("Collect") /\ GetParametersAnswered) =>
    /\ bLast.err = NoErr
    /\ ~bLast.isNil
    /\ bLast.result = [k \in Resolved |-> bLast.pre[k]]
    /\ { bLast.invalid[i] : i \in 1..Len(bLast.invalid) } = KeySet \ Resolved

C25_Witness ==
  /\ BatchRan("Collect") /\ GetParametersAnswered
  /\ Resolved # {}
  /\ KeySet \ Resolved # {}
  /\ bLast.err = NoErr

\* The keys of a Params call whose Param lookup succeeds.
LookupSucceeds(k) ==
  k # <<>> /\ k \in DOMAIN bLast.pre /\ "GetParameter" \notin bLast.faults

Succeeding == { k \in KeySet : LookupSucceeds(k) }

\* C28: Params returns a map with key -> value for every key whose lookup
\* succeeds and an aggregate error with the failure of every key whose
\* lookup fails, nil when none fails.
C28_ParamsMapAndAggregate ==
  BatchRan("Params") =>
    /\ ~bLast.panics
    /\ bLast.result = [k \in Succeeding |-> bLast.pre[k]]
    /\ IF KeySet = Succeeding
         THEN bLast.err = NoErr
         ELSE /\ IsMultiple(bLast.err)
              /\ Len(bLast.err.msg) = Cardinality({ i \in 1..Len(bLast.keys) :
                                                      ~LookupSucceeds(bLast.keys[i]) })

(***************************************************************************)
(*                   Properties of dynamo.Client.Write                     *)
(***************************************************************************)
WriteSent == dLast.op = "Write" /\ dLast.sent # <<>>

\* C30: whenever the row defines a condition expression, the PutItem request
\* of Write carries it, and the row's expression attribute names when there
\* are any.
C30_WriteSendsCondition ==
  (WriteSent /\ dLast.row.cond # <<>>) =>
    /\ dLast.sent[1].cond = dLast.row.cond
    /\ DOMAIN dLast.row.names # {} => dLast.sent[1].names = dLast.row.names

=============================================================================
